---- MODULE Spec2Model ----
(***************************************************************************)
(* ModernTest (src/include/ModernTest.hpp): the test registry, the         *)
(* assertion engine, the glob filter and the runner run_all_tests.         *)
(*                                                                         *)
(* Strings are TLA+ strings, scanned character by character with SubSeq.   *)
(* Console output (and use_colors, which only selects its ANSI strings)    *)
(* and wall-clock durations are not modelled: no state of the program that *)
(* a run reads depends on them.  The report file is assumed to open; when  *)
(* it does not, write_junit_xml returns without writing.                   *)
(***************************************************************************)
EXTENDS Integers, Sequences, FiniteSets, TLC

(* ------------------------------------------------------------------ *)
(* Bounds                                                             *)
(* ------------------------------------------------------------------ *)
\* Largest number of TestCases registered during static initialisation.
MaxTests == 3
\* Largest number of command-line arguments after argv[0].
MaxArgs == 2
\* Largest number of invocations of one Mock.
MaxCalls == 2
\* Largest number of Not() calls chained on one Expectation.
MaxNots == 2
\* Largest integer used as an actual, expected or argument value.
MaxVal == 2
\* Longest test name and longest filter pattern given to matches_filter.
MaxNameLen == 2
MaxPatLen == 2

(* ------------------------------------------------------------------ *)
(* Section 1: globals                                                 *)
(* ------------------------------------------------------------------ *)
\* default_suite_name = "ModernTest"
default_suite_name == "ModernTest"

\* The i-th character of a string.
Char(s, i) == SubSeq(s, i, i)

Upper == <<"A","B","C","D","E","F","G","H","I","J","K","L","M",
           "N","O","P","Q","R","S","T","U","V","W","X","Y","Z">>
Lower == <<"a","b","c","d","e","f","g","h","i","j","k","l","m",
           "n","o","p","q","r","s","t","u","v","w","x","y","z">>

\* std::regex::icase: characters are compared after case folding.
CaseFold(c) ==
    IF \E i \in 1..Len(Upper) : Upper[i] = c
    THEN Lower[CHOOSE i \in 1..Len(Upper) : Upper[i] = c]
    ELSE c

(* ------------------------------------------------------------------ *)
(* Section 3: mocking.  A Mock<int(int)> is its call log and its       *)
(* behavior: "none" (empty std::function), "square" (returns x * x),   *)
(* "raises" (a delegate that throws).                                  *)
(* ------------------------------------------------------------------ *)
MockBehaviors == {"none", "square", "raises"}

\* mock<Signature>(f)
Mock(f) == [calls |-> <<>>, behavior |-> f]

\* Mock::operator()(x): the Mock afterwards, the value returned (Ret{} = 0
\* without a behavior) and whether the behavior threw.
mock_call_LogAfter(m, x) ==
    [m      |-> IF m.behavior = "raises" THEN m
                ELSE [m EXCEPT !.calls = Append(@, <<x>>)],
     ret    |-> IF m.behavior = "square" THEN x * x ELSE 0,
     thrown |-> m.behavior = "raises"]

mock_call(m, x) ==
    [m      |-> [m EXCEPT !.calls = Append(@, <<x>>)],
     ret    |-> IF m.behavior = "square" THEN x * x ELSE 0,
     thrown |-> m.behavior = "raises"]

(* ------------------------------------------------------------------ *)
(* Section 4: assertions.  A test body is a sequence of statements:   *)
(*   expect(val)[.Not()]* <matcher> rhs;      kind "expect"           *)
(*   throw std::runtime_error(what);          kind "throw"            *)
(*   throw 42;  (not a std::exception)        kind "throw_other"      *)
(* The failure state is the pair of globals current_test_failed and   *)
(* failure_messages, carried here as [failed, msgs].                  *)
(* ------------------------------------------------------------------ *)
ExpectStmt(l, n, v, m, r) ==
    [kind |-> "expect", line |-> l, nots |-> n, val |-> v, matcher |-> m, rhs |-> r]
ThrowStmt(w)   == [kind |-> "throw", what |-> w]
ThrowOtherStmt == [kind |-> "throw_other"]

\* Expectation::Not(): inverted = !inverted, applied nots times to the
\* default inverted = false.
Not_Set(inverted, n) == inverted \/ n > 0

RECURSIVE Not(_, _)
Not(inverted, n) == IF n = 0 THEN inverted ELSE Not(~inverted, n - 1)

\* std::find(val.begin(), val.end(), element) != val.end()
Found(val, element) == \E i \in 1..Len(val) : val[i] = element

\* The comparison each relational operator hands to check().
raw_result(op, val, rhs) ==
    CASE op = "==" -> val = rhs
      [] op = "!=" -> val # rhs
      [] op = ">"  -> val > rhs
      [] op = "<"  -> val < rhs

\* loc.file_name() + ":" + to_string(loc.line()) + ": " + text
Located(file, line, text) == file \o ":" \o ToString(line) \o ": " \o text

\* check that takes the raw comparison as the result, whatever Not() set.
check_IgnoresInverted(st, file, line, inverted, val, op, rhs, raw) ==
    LET oss == (IF inverted THEN "Expected NOT " ELSE "Expected ")
               \o "[" \o ToString(val) \o "] " \o op \o " [" \o ToString(rhs) \o "]"
    IN  IF ~raw
        THEN [failed |-> TRUE,
              msgs   |-> Append(st.msgs, Located(file, line, oss))]
        ELSE st

\* Expectation::check
check(st, file, line, inverted, val, op, rhs, raw) ==
    LET final_result == IF inverted THEN ~raw ELSE raw
        oss == (IF inverted THEN "Expected NOT " ELSE "Expected ")
               \o "[" \o ToString(val) \o "] " \o op \o " [" \o ToString(rhs) \o "]"
    IN  IF ~final_result
        THEN [failed |-> TRUE,
              msgs   |-> Append(st.msgs, Located(file, line, oss))]
        ELSE st

\* Expectation::fail
fail(st, file, line, msg) ==
    [failed |-> TRUE, msgs |-> Append(st.msgs, Located(file, line, msg))]

\* to_contain that fails when the element is missing, whatever Not() set.
to_contain_IgnoresInverted(st, file, line, inverted, val, element) ==
    LET found == Found(val, element)
    IN  IF ~found
        THEN fail(st, file, line,
                  IF inverted THEN "Expected container NOT to contain element"
                              ELSE "Expected container to contain element")
        ELSE st

\* Expectation::to_contain
to_contain(st, file, line, inverted, val, element) ==
    LET found == Found(val, element)
    IN  IF inverted = found
        THEN fail(st, file, line,
                  IF inverted THEN "Expected container NOT to contain element"
                              ELSE "Expected container to contain element")
        ELSE st

\* Expectation::is_empty
is_empty(st, file, line, inverted, val) ==
    LET empty == (Len(val) = 0)
    IN  IF inverted = empty
        THEN fail(st, file, line,
                  IF inverted THEN "Expected container NOT to be empty"
                              ELSE "Expected container to be empty")
        ELSE st

\* Expectation::to_have_been_called_times, val being a Mock
to_have_been_called_times(st, file, line, inverted, val, n) ==
    LET match == (Len(val.calls) = n)
    IN  IF inverted = match
        THEN fail(st, file, line,
                  "Mock call count mismatch. Actual: " \o ToString(Len(val.calls)))
        ELSE st

\* One expect(...) statement of a body in file `file`: the Expectation is
\* built, Not() is applied s.nots times and the matcher is evaluated.
Expect(st, file, s) ==
    LET inverted == Not(FALSE, s.nots)
    IN  CASE s.matcher \in {"==", "!=", ">", "<"} ->
               check(st, file, s.line, inverted, s.val, s.matcher, s.rhs,
                     raw_result(s.matcher, s.val, s.rhs))
          [] s.matcher = "to_contain" ->
               to_contain(st, file, s.line, inverted, s.val, s.rhs)
          [] s.matcher = "is_empty" ->
               is_empty(st, file, s.line, inverted, s.val)
          [] s.matcher = "to_have_been_called_times" ->
               to_have_been_called_times(st, file, s.line, inverted, s.val, s.rhs)

\* test.func(): the statements run in order on the failure state; a throw
\* leaves the body at once.  The value is the failure state the body left,
\* the exception that escaped it (thrown: "none", "std" or "other") and the
\* number of statements that were executed.
RECURSIVE func_Fatal(_, _, _, _)
func_Fatal(body, k, file, st) ==
    IF k > Len(body) \/ st.failed
    THEN [st |-> st, thrown |-> "none", what |-> "", executed |-> k - 1]
    ELSE CASE body[k].kind = "throw" ->
                [st |-> st, thrown |-> "std", what |-> body[k].what, executed |-> k]
           [] body[k].kind = "throw_other" ->
                [st |-> st, thrown |-> "other", what |-> "", executed |-> k]
           [] body[k].kind = "expect" ->
                func_Fatal(body, k + 1, file, Expect(st, file, body[k]))

RECURSIVE func(_, _, _, _)
func(body, k, file, st) ==
    IF k > Len(body)
    THEN [st |-> st, thrown |-> "none", what |-> "", executed |-> k - 1]
    ELSE CASE body[k].kind = "throw" ->
                [st |-> st, thrown |-> "std", what |-> body[k].what, executed |-> k]
           [] body[k].kind = "throw_other" ->
                [st |-> st, thrown |-> "other", what |-> "", executed |-> k]
           [] body[k].kind = "expect" ->
                func(body, k + 1, file, Expect(st, file, body[k]))

(* ------------------------------------------------------------------ *)
(* Section 5: utilities.  matches_filter turns the glob into a regex  *)
(* and runs std::regex_search (ECMAScript, icase) over the name.      *)
(* ------------------------------------------------------------------ *)
RegexSpecial == {".", "(", ")", "[", "]", "{", "}", "^", "$", "+", "|", "\\"}
LineTerminators == {"\n", "\r"}

\* The for/switch loop of matches_filter: * -> .*, ? -> ., specials escaped.
RECURSIVE regex_pattern(_)
regex_pattern(pattern) ==
    IF Len(pattern) = 0 THEN ""
    ELSE LET c == Head(pattern)
         IN  (CASE c = "*" -> ".*"
                [] c = "?" -> "."
                [] c \in RegexSpecial -> "\\" \o c
                [] OTHER -> c)
             \o regex_pattern(Tail(pattern))

\* std::regex re(regex_pattern, icase) throws regex_error on a malformed
\* expression.  In the fragment regex_pattern produces, the only possible
\* malformation is a backslash with nothing after it.
RECURSIVE RegexCompiles(_, _)
RegexCompiles(re, j) ==
    IF j > Len(re) THEN TRUE
    ELSE IF Char(re, j) = "\\"
         THEN j + 1 <= Len(re) /\ RegexCompiles(re, j + 2)
         ELSE RegexCompiles(re, j + 1)

\* Does re[j..] match some prefix of name[i..]?  The regex fragment is:
\*   \c  the character c;   .*  any run of non-line-terminators;
\*   .   one non-line-terminator;   c  the character c (case folded).
RECURSIVE RegexAt(_, _, _, _)
RegexAt(re, j, name, i) ==
    IF j > Len(re) THEN TRUE
    ELSE IF Char(re, j) = "\\"
    THEN /\ i <= Len(name)
         /\ CaseFold(Char(name, i)) = CaseFold(Char(re, j + 1))
         /\ RegexAt(re, j + 2, name, i + 1)
    ELSE IF Char(re, j) = "." /\ j + 1 <= Len(re) /\ Char(re, j + 1) = "*"
    THEN \E n \in 0..(Len(name) - i + 1) :
            /\ \A k \in i..(i + n - 1) : Char(name, k) \notin LineTerminators
            /\ RegexAt(re, j + 2, name, i + n)
    ELSE IF Char(re, j) = "."
    THEN /\ i <= Len(name)
         /\ Char(name, i) \notin LineTerminators
         /\ RegexAt(re, j + 1, name, i + 1)
    ELSE /\ i <= Len(name)
         /\ CaseFold(Char(name, i)) = CaseFold(Char(re, j))
         /\ RegexAt(re, j + 1, name, i + 1)

\* std::regex_search: the expression matches starting at some position.
regex_search(name, re) == \E i \in 1..(Len(name) + 1) : RegexAt(re, 1, name, i)

\* name.find(pattern) != npos
Contains(name, pattern) ==
    \E i \in 1..(Len(name) - Len(pattern) + 1) :
        SubSeq(name, i, i + Len(pattern) - 1) = pattern

matches_filter(name, pattern) ==
    IF Len(pattern) = 0 THEN TRUE
    ELSE LET re == regex_pattern(pattern)
         IN  IF RegexCompiles(re, 1)
             THEN regex_search(name, re)
             ELSE Contains(name, pattern)

\* matches_test_filters that wants both names to satisfy the pattern.
matches_test_filters_Both(test, pattern) ==
    /\ matches_filter(test.name, pattern)
    /\ matches_filter(default_suite_name \o "." \o test.name, pattern)

matches_test_filters_BareOnly(test, pattern) == matches_filter(test.name, pattern)

matches_test_filters(test, pattern) ==
    \/ matches_filter(test.name, pattern)
    \/ matches_filter(default_suite_name \o "." \o test.name, pattern)

\* escape_xml: the five special characters are replaced by their entities.
RECURSIVE escape_xml(_)
escape_xml(str) ==
    IF Len(str) = 0 THEN ""
    ELSE LET c == Head(str)
         IN  (CASE c = "&"  -> "&amp;"
                [] c = "<"  -> "&lt;"
                [] c = ">"  -> "&gt;"
                [] c = "\"" -> "&quot;"
                [] c = "'"  -> "&apos;"
                [] OTHER    -> c)
             \o escape_xml(Tail(str))

\* write_junit_xml counting a skipped result among the failures.
junit_xml_SkippedAsFailure(rs) ==
    LET failures == Cardinality({i \in 1..Len(rs) : rs[i].skipped \/ ~rs[i].passed})
        nskipped == Cardinality({i \in 1..Len(rs) : rs[i].skipped})
        leaf(r)  == [name     |-> escape_xml(r.name),
                     file     |-> escape_xml(r.file),
                     line     |-> r.line,
                     skipped  |-> r.skipped,
                     failures |-> IF ~r.skipped /\ ~r.passed
                                  THEN [j \in 1..Len(r.failures) |->
                                           escape_xml(r.failures[j])]
                                  ELSE <<>>]
    IN  [testsuites |-> [tests |-> Len(rs), failures |-> failures,
                         skipped |-> nskipped],
         testsuite  |-> [name |-> "ModernTest", tests |-> Len(rs),
                         failures |-> failures, skipped |-> nskipped],
         testcases  |-> [i \in 1..Len(rs) |-> leaf(rs[i])]]

\* write_junit_xml, the document written to `path`.  The root <testsuites>
\* and the single <testsuite> carry the same counts; one <testcase> leaf per
\* result, with a <skipped/> marker or one <failure> per message.
junit_xml(rs) ==
    LET failures == Cardinality({i \in 1..Len(rs) : ~rs[i].skipped /\ ~rs[i].passed})
        nskipped == Cardinality({i \in 1..Len(rs) : rs[i].skipped})
        counts   == [tests |-> Len(rs), failures |-> failures, skipped |-> nskipped]
        leaf(r)  == [name     |-> escape_xml(r.name),
                     file     |-> escape_xml(r.file),
                     line     |-> r.line,
                     skipped  |-> r.skipped,
                     failures |-> IF ~r.skipped /\ ~r.passed
                                  THEN [j \in 1..Len(r.failures) |->
                                           escape_xml(r.failures[j])]
                                  ELSE <<>>]
    IN  [testsuites |-> counts,
         testsuite  |-> [name |-> "ModernTest", tests |-> Len(rs),
                         failures |-> failures, skipped |-> nskipped],
         testcases  |-> [i \in 1..Len(rs) |-> leaf(rs[i])]]

(* ------------------------------------------------------------------ *)
(* Section 2: registry.  The host program's TEST / TEST_SKIP /        *)
(* TEST_ONLY declarations; each is one static Registrar object.       *)
(* ------------------------------------------------------------------ *)
TestStatus == {"NORMAL", "SKIP", "ONLY"}

TestCase(n, b, s, f, l) ==
    [name |-> n, func |-> b, status |-> s, file |-> f, line |-> l]

Declared == {
    \* TEST("A", [] { expect(2) == 2; expect(4).Not().Not() == 4; expect(3) > 2; });
    TestCase("A", <<ExpectStmt(6, 0, 2, "==", 2),
                    ExpectStmt(7, 2, 4, "==", 4),
                    ExpectStmt(8, 0, 3, ">", 2)>>,
             "NORMAL", "t1.cpp", 5),
    \* TEST("B", [] { expect(2) == 3; expect(1) < 2;
    \*                expect(v12).Not().to_contain(2); });
    TestCase("B", <<ExpectStmt(10, 0, 2, "==", 3),
                    ExpectStmt(11, 0, 1, "<", 2),
                    ExpectStmt(12, 1, <<1, 2>>, "to_contain", 2)>>,
             "NORMAL", "t1.cpp", 9),
    \* TEST_ONLY("A", [] { expect(4).Not() == 4; throw std::runtime_error("boom");
    \*                     expect(1) == 2; });
    TestCase("A", <<ExpectStmt(6, 1, 4, "==", 4),
                    ThrowStmt("boom"),
                    ExpectStmt(8, 0, 1, "==", 2)>>,
             "ONLY", "t2.cpp", 5),
    \* TEST_SKIP("Ab", [] { expect(empty).Not().is_empty(); });
    TestCase("Ab", <<ExpectStmt(10, 1, <<>>, "is_empty", 0)>>, "SKIP", "t2.cpp", 9),
    \* TEST("A", [] { throw 42; });
    TestCase("A", <<ThrowOtherStmt>>, "NORMAL", "t2.cpp", 15)
}

\* Registrar::Registrar: get_tests().push_back({name, func, status, file, line})
Registrar(registry, t) == Append(registry, t)

(* ------------------------------------------------------------------ *)
(* Command line                                                       *)
(* ------------------------------------------------------------------ *)
\* The filter patterns a command line may carry.  Over the declared names
\* and their suite-qualified forms: "A" is found in A and Ab, "?b" in Ab and
\* in ModernTest.B.
Patterns == {"", "A", "?b"}

\* argv[i] by its effect in parse_args: --mt_filter=P / --gtest_filter=P,
\* --mt_output=xml:F / --gtest_output=xml:F, --mt_no_color / --gtest_color=no,
\* --mt_list_tests / --gtest_list_tests, --help / -h.  "no_color" stands also
\* for an unrecognised argument: neither changes the modelled state.
Arguments ==
    {[flag |-> "filter", value |-> p] : p \in Patterns}
    \cup {[flag |-> "output", value |-> "r.xml"]}
    \cup {[flag |-> f, value |-> ""] : f \in {"no_color", "list_tests", "help"}}

(* ------------------------------------------------------------------ *)
(* State                                                              *)
(* ------------------------------------------------------------------ *)
VARIABLES
    \* globals of namespace mt
    tests,                \* get_tests()
    results,              \* get_results()
    test_filter_pattern,
    xml_output_path,
    show_help_only,
    current_test_failed,
    current_test_file,
    failure_messages,
    \* the file system: the document last written by write_junit_xml
    \* ("none" before the first write)
    xml_file,
    \* control: "startup" (static initialisation), "idle" (main entered),
    \* "parse", "begin", "loop" (inside run_all_tests), "done" (it returned)
    pc,
    \* locals of parse_args (argc, and argi for its i) and of run_all_tests
    argc, argi, has_only, tests_to_run, passed, failed, skipped,
    failed_tests, idx, ret,
    \* history of the current invocation, read only by the properties:
    \* the registry indices whose func was called, the registry index each
    \* pushed result came from, the results pushed, whether the invocation
    \* got past the help check, whether --help or a list flag was in argv,
    \* whether results was non-empty when the invocation began
    invoked, origin, fresh, ran, help_in_args, prior_results,
    \* a test body's own objects, used by the assertion and filter
    \* specifications below: a Mock with the arguments it was invoked with,
    \* the last expect statement evaluated with the failure state before and
    \* after it, the last name tried against a filter pattern
    mock, invocations, last, query

globals == <<tests, results, test_filter_pattern, xml_output_path,
             show_help_only, current_test_failed, current_test_file,
             failure_messages, xml_file>>
locals  == <<argc, argi, has_only, tests_to_run, passed, failed, skipped,
             failed_tests, idx, ret>>
history == <<invoked, origin, fresh, ran, help_in_args, prior_results>>
runner  == <<globals, locals, history, pc>>
bench   == <<mock, invocations, last, query>>
vars    == <<globals, locals, history, pc, bench>>

Init ==
    /\ tests = <<>>
    /\ results = <<>>
    /\ test_filter_pattern = ""
    /\ xml_output_path = ""
    /\ show_help_only = FALSE
    /\ current_test_failed = FALSE
    /\ current_test_file = ""
    /\ failure_messages = <<>>
    /\ xml_file = "none"
    /\ pc = "startup"
    /\ argc = 0 /\ argi = 0 /\ has_only = FALSE /\ tests_to_run = 0
    /\ passed = 0 /\ failed = 0 /\ skipped = 0 /\ failed_tests = <<>>
    /\ idx = 0 /\ ret = 0
    /\ invoked = <<>> /\ origin = <<>> /\ fresh = <<>>
    /\ ran = FALSE /\ help_in_args = FALSE /\ prior_results = FALSE
    /\ mock = Mock("none")
    /\ invocations = <<>>
    /\ last = [set |-> FALSE]
    /\ query = [set |-> FALSE]

(* ------------------------------------------------------------------ *)
(* Static initialisation                                              *)
(* ------------------------------------------------------------------ *)
\* One static Registrar object is constructed.
Register(t) ==
    /\ pc = "startup"
    /\ Len(tests) < MaxTests
    /\ tests' = Registrar(tests, t)
    /\ UNCHANGED <<results, test_filter_pattern, xml_output_path,
                   show_help_only, current_test_failed, current_test_file,
                   failure_messages, xml_file, locals, history, pc>>
    /\ UNCHANGED bench

\* Static initialisation is over and main() is entered.
StartMain ==
    /\ pc = "startup"
    /\ pc' = "idle"
    /\ UNCHANGED <<globals, locals, history>>
    /\ UNCHANGED bench

(* ------------------------------------------------------------------ *)
(* Section 6: runner                                                  *)
(* ------------------------------------------------------------------ *)
\* run_all_tests(argc, argv) is called; n = 0 is the call without arguments
\* (argc = 0, argv = nullptr), n >= 1 a call with argv[0..n-1].
Call(n) ==
    /\ pc \in {"idle", "done"}
    /\ IF n > 0
       THEN argc' = n /\ argi' = 1 /\ pc' = "parse"
       ELSE argc' = 0 /\ argi' = 0 /\ pc' = "begin"
    /\ has_only' = FALSE /\ tests_to_run' = 0
    /\ passed' = 0 /\ failed' = 0 /\ skipped' = 0 /\ failed_tests' = <<>>
    /\ idx' = 0 /\ ret' = 0
    /\ invoked' = <<>> /\ origin' = <<>> /\ fresh' = <<>>
    /\ ran' = FALSE /\ help_in_args' = FALSE
    /\ prior_results' = (results # <<>>)
    /\ UNCHANGED globals
    /\ UNCHANGED bench

\* parse_args whose list-tests branch does not set show_help_only.
ParseArg_ListRuns(arg) ==
    /\ pc = "parse"
    /\ argi < argc
    /\ argi' = argi + 1
    /\ test_filter_pattern' =
          IF arg.flag = "filter" THEN arg.value ELSE test_filter_pattern
    /\ xml_output_path' =
          IF arg.flag = "output" THEN arg.value ELSE xml_output_path
    /\ show_help_only' =
          IF arg.flag = "help" THEN TRUE ELSE show_help_only
    /\ help_in_args' = (help_in_args \/ arg.flag \in {"list_tests", "help"})
    /\ UNCHANGED <<tests, results, current_test_failed, current_test_file,
                   failure_messages, xml_file, pc, argc, has_only, tests_to_run,
                   passed, failed, skipped, failed_tests, idx, ret,
                   invoked, origin, fresh, ran, prior_results>>
    /\ UNCHANGED bench

\* parse_args, one iteration of its loop over argv[1..argc-1].
ParseArg(arg) ==
    /\ pc = "parse"
    /\ argi < argc
    /\ argi' = argi + 1
    /\ test_filter_pattern' =
          IF arg.flag = "filter" THEN arg.value ELSE test_filter_pattern
    /\ xml_output_path' =
          IF arg.flag = "output" THEN arg.value ELSE xml_output_path
    /\ show_help_only' =
          IF arg.flag \in {"list_tests", "help"} THEN TRUE ELSE show_help_only
    /\ help_in_args' = (help_in_args \/ arg.flag \in {"list_tests", "help"})
    /\ UNCHANGED <<tests, results, current_test_failed, current_test_file,
                   failure_messages, xml_file, pc, argc, has_only, tests_to_run,
                   passed, failed, skipped, failed_tests, idx, ret,
                   invoked, origin, fresh, ran, prior_results>>
    /\ UNCHANGED bench

\* parse_args returned (its argc and i are gone): if (show_help_only) return 0;
ParseReturn ==
    /\ pc = "parse"
    /\ argi >= argc
    /\ argc' = 0 /\ argi' = 0
    /\ IF show_help_only
       THEN pc' = "done" /\ ret' = 0
       ELSE pc' = "begin" /\ ret' = ret
    /\ UNCHANGED <<globals, has_only, tests_to_run, passed, failed,
                   skipped, failed_tests, idx, history>>
    /\ UNCHANGED bench

\* results.clear()
clear_Keep(rs) == rs

clear(rs) == <<>>

\* std::any_of(tests, status == ONLY)
any_only(registry) == \E i \in 1..Len(registry) : registry[i].status = "ONLY"

\* The skip condition of the main loop.
is_skipped_OwnStatusOnly(test, only) == test.status = "SKIP"

is_skipped_OverrideOnly(test, only) == only /\ test.status # "ONLY"

is_skipped(test, only) ==
    test.status = "SKIP" \/ (only /\ test.status # "ONLY")

\* The count loop without the has_only condition.
count_tests_to_run_IgnoresOnly(registry, only, pattern) ==
    Cardinality({i \in 1..Len(registry) :
                    /\ registry[i].status # "SKIP"
                    /\ matches_test_filters(registry[i], pattern)})

\* The count loop: tests that will actually run.
count_tests_to_run(registry, only, pattern) ==
    Cardinality({i \in 1..Len(registry) :
                    /\ registry[i].status # "SKIP"
                    /\ (~only \/ registry[i].status = "ONLY")
                    /\ matches_test_filters(registry[i], pattern)})

\* From results.clear() to the start of the main loop.
BeginRun ==
    /\ pc = "begin"
    /\ results' = clear(results)
    /\ has_only' = any_only(tests)
    /\ tests_to_run' = count_tests_to_run(tests, any_only(tests), test_filter_pattern)
    /\ passed' = 0 /\ failed' = 0 /\ skipped' = 0
    /\ failed_tests' = <<>>
    /\ idx' = 1
    /\ pc' = "loop"
    /\ ran' = TRUE
    /\ UNCHANGED <<tests, test_filter_pattern, xml_output_path,
                   show_help_only, current_test_failed, current_test_file,
                   failure_messages, xml_file, argc, argi, ret,
                   invoked, origin, fresh, help_in_args, prior_results>>
    /\ UNCHANGED bench

\* TestResult result; result.name/file/line = test.name/file/line
\* (passed = true, skipped = false, no failures by default).
NewResult_NoLine(test) ==
    [name |-> test.name, file |-> test.file, line |-> 0,
     passed |-> TRUE, skipped |-> FALSE, failures |-> <<>>]

NewResult(test) ==
    [name |-> test.name, file |-> test.file, line |-> test.line,
     passed |-> TRUE, skipped |-> FALSE, failures |-> <<>>]

\* One iteration of the main loop: the test fails the filter (continue).
FilterOut ==
    /\ pc = "loop"
    /\ idx <= Len(tests)
    /\ ~matches_test_filters(tests[idx], test_filter_pattern)
    /\ idx' = idx + 1
    /\ UNCHANGED <<globals, argc, argi, has_only, tests_to_run, passed, failed,
                   skipped, failed_tests, ret, history, pc>>
    /\ UNCHANGED bench

\* The skip branch without skipped++.
SkipTest_NoCount ==
    /\ pc = "loop"
    /\ idx <= Len(tests)
    /\ matches_test_filters(tests[idx], test_filter_pattern)
    /\ is_skipped(tests[idx], has_only)
    /\ LET result == [NewResult(tests[idx]) EXCEPT !.skipped = TRUE]
       IN  /\ skipped' = skipped
           /\ results' = Append(results, result)
           /\ fresh' = Append(fresh, result)
           /\ origin' = Append(origin, idx)
    /\ idx' = idx + 1
    /\ UNCHANGED <<tests, test_filter_pattern, xml_output_path,
                   show_help_only, current_test_failed, current_test_file,
                   failure_messages, xml_file, argc, argi, has_only,
                   tests_to_run, passed, failed, failed_tests, ret,
                   invoked, ran, help_in_args, prior_results, pc>>
    /\ UNCHANGED bench

\* One iteration of the main loop: the test is skipped.
SkipTest ==
    /\ pc = "loop"
    /\ idx <= Len(tests)
    /\ matches_test_filters(tests[idx], test_filter_pattern)
    /\ is_skipped(tests[idx], has_only)
    /\ LET result == [NewResult(tests[idx]) EXCEPT !.skipped = TRUE]
       IN  /\ skipped' = skipped + 1
           /\ results' = Append(results, result)
           /\ fresh' = Append(fresh, result)
           /\ origin' = Append(origin, idx)
    /\ idx' = idx + 1
    /\ UNCHANGED <<tests, test_filter_pattern, xml_output_path,
                   show_help_only, current_test_failed, current_test_file,
                   failure_messages, xml_file, argc, argi, has_only,
                   tests_to_run, passed, failed, failed_tests, ret,
                   invoked, ran, help_in_args, prior_results, pc>>
    /\ UNCHANGED bench

\* current_test_failed = false; failure_messages.clear();
reset_Keep(st) == st

reset(st) == [failed |-> FALSE, msgs |-> <<>>]

\* The try block around test.func(): r is what func returned.  The value is
\* the failure state after the catch clauses and whether the exception
\* escaped them (and so leaves run_all_tests).
\* (below: catch clauses that drop the messages recorded before the
\* exception, catch (...) that pushes its message without setting the flag,
\* and a try block without the catch (...) clause.)
catch_DropsEarlier(r) ==
    CASE r.thrown = "std" ->
           [failed  |-> TRUE,
            msgs    |-> <<"Unhandled exception: " \o r.what>>,
            escaped |-> FALSE]
      [] r.thrown = "other" ->
           [failed  |-> TRUE,
            msgs    |-> <<"Unknown exception thrown">>,
            escaped |-> FALSE]
      [] r.thrown = "none" ->
           [failed |-> r.st.failed, msgs |-> r.st.msgs, escaped |-> FALSE]

catch_NoFlag(r) ==
    CASE r.thrown = "std" ->
           [failed  |-> TRUE,
            msgs    |-> Append(r.st.msgs, "Unhandled exception: " \o r.what),
            escaped |-> FALSE]
      [] r.thrown = "other" ->
           [failed  |-> r.st.failed,
            msgs    |-> Append(r.st.msgs, "Unknown exception thrown"),
            escaped |-> FALSE]
      [] r.thrown = "none" ->
           [failed |-> r.st.failed, msgs |-> r.st.msgs, escaped |-> FALSE]

catch_StdOnly(r) ==
    CASE r.thrown = "std" ->
           [failed  |-> TRUE,
            msgs    |-> Append(r.st.msgs, "Unhandled exception: " \o r.what),
            escaped |-> FALSE]
      [] r.thrown = "other" ->
           [failed |-> r.st.failed, msgs |-> r.st.msgs, escaped |-> TRUE]
      [] r.thrown = "none" ->
           [failed |-> r.st.failed, msgs |-> r.st.msgs, escaped |-> FALSE]

catch(r) ==
    CASE r.thrown = "std" ->
           [failed  |-> TRUE,
            msgs    |-> Append(r.st.msgs, "Unhandled exception: " \o r.what),
            escaped |-> FALSE]
      [] r.thrown = "other" ->
           [failed  |-> TRUE,
            msgs    |-> Append(r.st.msgs, "Unknown exception thrown"),
            escaped |-> FALSE]
      [] r.thrown = "none" ->
           [failed |-> r.st.failed, msgs |-> r.st.msgs, escaped |-> FALSE]

\* One iteration of the main loop: the test is executed.  An exception that
\* escaped the catch clauses would unwind run_all_tests ("aborted").
ExecuteTest ==
    /\ pc = "loop"
    /\ idx <= Len(tests)
    /\ matches_test_filters(tests[idx], test_filter_pattern)
    /\ ~is_skipped(tests[idx], has_only)
    /\ LET test   == tests[idx]
           st0    == reset([failed |-> current_test_failed,
                            msgs   |-> failure_messages])
           st1    == catch(func(test.func, 1, test.file, st0))
           result == [NewResult(test) EXCEPT !.failures = st1.msgs,
                                             !.passed   = ~st1.failed]
       IN  /\ current_test_failed' = st1.failed
           /\ failure_messages' = st1.msgs
           /\ current_test_file' = test.file
           /\ invoked' = Append(invoked, idx)
           /\ IF st1.escaped
              THEN /\ pc' = "aborted"
                   /\ UNCHANGED <<results, fresh, origin, failed_tests, failed,
                                  passed, idx>>
              ELSE /\ pc' = pc
                   /\ IF st1.failed
                      THEN /\ failed_tests' = Append(failed_tests, test.name)
                           /\ failed' = failed + 1
                           /\ passed' = passed
                      ELSE /\ passed' = passed + 1
                           /\ failed' = failed
                           /\ failed_tests' = failed_tests
                   /\ results' = Append(results, result)
                   /\ fresh' = Append(fresh, result)
                   /\ origin' = Append(origin, idx)
                   /\ idx' = idx + 1
    /\ UNCHANGED <<tests, test_filter_pattern, xml_output_path,
                   show_help_only, xml_file, argc, argi, has_only,
                   tests_to_run, skipped, ret, ran, help_in_args, prior_results>>
    /\ UNCHANGED bench

\* return failed > 0 ? 1 : 0
exit_code_AlwaysZero(nfailed) == 0

exit_code(nfailed) == IF nfailed > 0 THEN 1 ELSE 0

\* After the loop: the summary, the JUnit report if a path was given, and
\* the return.
EndRun ==
    /\ pc = "loop"
    /\ idx > Len(tests)
    /\ xml_file' = IF xml_output_path # "" THEN junit_xml(results) ELSE xml_file
    /\ ret' = exit_code(failed)
    /\ pc' = "done"
    /\ UNCHANGED <<tests, results, test_filter_pattern, xml_output_path,
                   show_help_only, current_test_failed,
                   current_test_file, failure_messages, argc, argi, has_only,
                   tests_to_run, passed, failed, skipped, failed_tests, idx,
                   history>>
    /\ UNCHANGED bench

Next ==
    \/ \E t \in Declared : Register(t)
    \/ StartMain
    \/ \E n \in 0..(MaxArgs + 1) : Call(n)
    \/ \E arg \in Arguments : ParseArg(arg)
    \/ ParseReturn
    \/ BeginRun
    \/ FilterOut
    \/ SkipTest
    \/ ExecuteTest
    \/ EndRun

Spec == Init /\ [][Next]_vars

(* ------------------------------------------------------------------ *)
(* The assertion engine and the Mock on their own: a test body that   *)
(* makes a Mock, invokes it some times and then evaluates one expect  *)
(* statement, for every matcher and bounded inputs.                   *)
(* ------------------------------------------------------------------ *)
BenchFile == "t1.cpp"
BenchLine == 7

\* The failure state an expect statement may find: clean, or one earlier
\* failure of the same test.
FailureStates ==
    {[failed |-> FALSE, msgs |-> <<>>],
     [failed |-> TRUE,  msgs |-> <<"t1.cpp:3: Expected [1] == [2]">>]}

Containers == {<<>>, <<1>>, <<1, 2>>}

\* The statement s, and the same statement with Not() chained once and twice
\* more, each evaluated on the failure state `before`.  The subject of the
\* expect is kept by its type: the number of a relational matcher, the items
\* of a container matcher; a Mock subject is the variable mock.
Evaluate(s, before) ==
    [set    |-> TRUE,
     stmt   |-> [line |-> s.line, nots |-> s.nots,
                 matcher |-> s.matcher, rhs |-> s.rhs],
     number |-> IF s.matcher \in {"==", "!=", ">", "<"} THEN s.val ELSE 0,
     items  |-> IF s.matcher \in {"to_contain", "is_empty"} THEN s.val ELSE <<>>,
     before |-> before,
     after  |-> Expect(before, BenchFile, s),
     once   |-> Expect(before, BenchFile, [s EXCEPT !.nots = @ + 1]),
     twice  |-> Expect(before, BenchFile, [s EXCEPT !.nots = @ + 2])]

\* auto m = mt::mock<int(int)>(f);
NewMock(f) ==
    /\ ~last.set
    /\ mock' = Mock(f)
    /\ invocations' = <<>>
    /\ UNCHANGED <<runner, last, query>>

\* m(x); an exception of the behavior is caught by the body.
Invoke(x) ==
    /\ ~last.set
    /\ Len(invocations) < MaxCalls
    /\ mock' = mock_call(mock, x).m
    /\ invocations' = Append(invocations, <<x>>)
    /\ UNCHANGED <<runner, last, query>>

\* expect(v)[.Not()]* == / != / > / < r;
AssertRelational(before, n, v, op, r) ==
    /\ ~last.set
    /\ last' = Evaluate(ExpectStmt(BenchLine, n, v, op, r), before)
    /\ UNCHANGED <<runner, mock, invocations, query>>

\* expect(c)[.Not()]*.to_contain(e);
AssertContains(before, n, c, e) ==
    /\ ~last.set
    /\ last' = Evaluate(ExpectStmt(BenchLine, n, c, "to_contain", e), before)
    /\ UNCHANGED <<runner, mock, invocations, query>>

\* expect(c)[.Not()]*.is_empty();
AssertEmpty(before, n, c) ==
    /\ ~last.set
    /\ last' = Evaluate(ExpectStmt(BenchLine, n, c, "is_empty", 0), before)
    /\ UNCHANGED <<runner, mock, invocations, query>>

\* expect(m)[.Not()]*.to_have_been_called_times(k);
AssertCalled(before, n, k) ==
    /\ ~last.set
    /\ last' = Evaluate(ExpectStmt(BenchLine, n, mock,
                                   "to_have_been_called_times", k), before)
    /\ UNCHANGED <<runner, mock, invocations, query>>

NextAssert ==
    \/ \E f \in MockBehaviors : NewMock(f)
    \/ \E x \in 0..MaxVal : Invoke(x)
    \/ \E before \in FailureStates, n \in 0..MaxNots, v \in 0..MaxVal,
          op \in {"==", "!=", ">", "<"}, r \in 0..MaxVal :
          AssertRelational(before, n, v, op, r)
    \/ \E before \in FailureStates, n \in 0..MaxNots, c \in Containers,
          e \in 0..MaxVal : AssertContains(before, n, c, e)
    \/ \E before \in FailureStates, n \in 0..MaxNots, c \in Containers :
          AssertEmpty(before, n, c)
    \/ \E before \in FailureStates, n \in 0..MaxNots, k \in 0..(MaxCalls + 1) :
          AssertCalled(before, n, k)

SpecAssert == Init /\ [][NextAssert]_vars

(* ------------------------------------------------------------------ *)
(* The Filter Matcher on its own: one query of matches_filter and     *)
(* matches_test_filters for a test name and a filter pattern drawn    *)
(* from bounded strings.                                              *)
(* ------------------------------------------------------------------ *)
NameChars    == {"A", "a", "b", "."}
PatternChars == {"A", "a", "b", ".", "*", "?"}

RECURSIVE Strings(_, _)
Strings(alphabet, n) ==
    IF n = 0 THEN {""}
    ELSE LET shorter == Strings(alphabet, n - 1)
         IN  shorter \cup {str \o c : str \in shorter, c \in alphabet}

\* Test names (TEST("...")) and --mt_filter= values, the two names and the
\* pattern of the sample tests' documentation among them.
TestNames      == Strings(NameChars, MaxNameLen) \cup {"Basic Math", "Vector"}
FilterPatterns == Strings(PatternChars, MaxPatLen) \cup {"*Math*"}

\* test_filter_pattern = pattern; matches_test_filters(test) for a test of
\* that name, with the two calls of matches_filter it makes.
Query(name, pattern) ==
    /\ ~query.set
    /\ query' = [set       |-> TRUE,
                 name      |-> name,
                 pattern   |-> pattern,
                 bare      |-> matches_filter(name, pattern),
                 qualified |-> matches_filter(default_suite_name \o "." \o name,
                                              pattern),
                 overall   |-> matches_test_filters(
                                   TestCase(name, <<>>, "NORMAL", BenchFile, BenchLine),
                                   pattern)]
    /\ UNCHANGED <<runner, mock, invocations, last>>

NextFilter == \E name \in TestNames, pattern \in FilterPatterns : Query(name, pattern)

SpecFilter == Init /\ [][NextFilter]_vars

(* ------------------------------------------------------------------ *)
(* Properties                                                         *)
(* ------------------------------------------------------------------ *)
Range(seq) == {seq[k] : k \in 1..Len(seq)}

\* results has been cleared by this invocation and the loop is under way or over;
\* the registry entries before idx have been processed.
Running  == ran /\ pc \in {"loop", "done"}
Finished == ran /\ pc = "done"

\* The filter of spec 4.2: the pattern is satisfied by the bare name or by
\* the suite-qualified name.
PassesFilter(t) ==
    \/ matches_filter(t.name, test_filter_pattern)
    \/ matches_filter("ModernTest." \o t.name, test_filter_pattern)

\* The processed registry indices that pass the filter.
Passing == {i \in 1..(idx - 1) : PassesFilter(tests[i])}

SomeOnly == \E i \in 1..Len(tests) : tests[i].status = "ONLY"

ExecutedResults == {k \in 1..Len(results) : ~results[k].skipped}
SkippedResults  == {k \in 1..Len(results) : results[k].skipped}

\* The first throw statement of a body, if any.
Throws(body) == \E j \in 1..Len(body) : body[j].kind \in {"throw", "throw_other"}
FirstThrow(body) ==
    body[CHOOSE j \in 1..Len(body) :
            /\ body[j].kind \in {"throw", "throw_other"}
            /\ \A h \in 1..(j - 1) : body[h].kind = "expect"]
ExceptionMessage(s) ==
    IF s.kind = "throw" THEN "Unhandled exception: " \o s.what
    ELSE "Unknown exception thrown"

\* What a test yields when it runs alone, from a clean failure state.
Own(t) == catch(func(t.func, 1, t.file, [failed |-> FALSE, msgs |-> <<>>]))

\* An expect statement whose matcher does not hold: the inversion state and
\* the raw predicate agree.
StmtFails(s) ==
    /\ s.kind = "expect"
    /\ LET inverted == (s.nots % 2 = 1)
           raw == CASE s.matcher = "==" -> s.val = s.rhs
                    [] s.matcher = "!=" -> s.val # s.rhs
                    [] s.matcher = ">"  -> s.val > s.rhs
                    [] s.matcher = "<"  -> s.val < s.rhs
                    [] s.matcher = "to_contain" -> s.rhs \in Range(s.val)
                    [] s.matcher = "is_empty"   -> s.val = <<>>
       IN  inverted = raw

HasPrefix(str, prefix) ==
    Len(prefix) <= Len(str) /\ SubSeq(str, 1, Len(prefix)) = prefix

\* C1: after (and during) a run, the results are exactly one per processed
\* TestCase that passes the filter, skipped ones included, and none for a
\* TestCase that fails the filter.
C1_ResultsAreTheFilterPassingTests ==
    Running =>
        /\ Len(results) = Cardinality(Passing)
        /\ Len(origin) = Len(results)
        /\ Range(origin) = Passing

C1_Witness ==
    /\ Finished
    /\ \E i \in 1..Len(tests) : ~PassesFilter(tests[i])
    /\ SkippedResults # {}
    /\ ExecutedResults # {}

\* C2: if some registered TestCase is ONLY, every filter-passing TestCase that
\* is not ONLY gets a Skipped result and is not invoked, and only ONLY
\* TestCases are executed; if none is ONLY, exactly the SKIP ones are skipped.
C2_OnlyOverride ==
    Running =>
        /\ \A k \in 1..Len(results) :
              LET t == tests[origin[k]]
              IN  /\ results[k].skipped <=>
                         (IF SomeOnly THEN t.status # "ONLY" ELSE t.status = "SKIP")
                  /\ results[k].skipped <=> origin[k] \notin Range(invoked)
        /\ \A j \in 1..Len(invoked) :
              /\ invoked[j] \in Range(origin)
              /\ SomeOnly => tests[invoked[j]].status = "ONLY"

C2_Witness ==
    /\ Finished
    /\ SomeOnly
    /\ \E k \in SkippedResults : tests[origin[k]].status = "NORMAL"
    /\ \E k \in SkippedResults : tests[origin[k]].status = "SKIP"
    /\ invoked # <<>>

ThreeTestsOneOnly ==
    /\ Len(tests) = 3
    /\ Cardinality({i \in 1..3 : tests[i].status = "ONLY"}) = 1

\* C3 as stated: three tests, one ONLY: one executed result and two Skipped
\* results whatever the filter.
C3_AsStated ==
    (Finished /\ ThreeTestsOneOnly) =>
        /\ Cardinality(ExecutedResults) = 1
        /\ Cardinality(SkippedResults) = 2

\* C3: three tests, one ONLY: the run yields one executed result if the ONLY
\* test passes the filter (none otherwise) and a Skipped result for each other
\* test that passes the filter; with nothing filtered out, one and two.
C3_OneOnlyAmongThree ==
    (Finished /\ ThreeTestsOneOnly) =>
        /\ Cardinality(ExecutedResults) =
              Cardinality({i \in Passing : tests[i].status = "ONLY"})
        /\ Cardinality(SkippedResults) =
              Cardinality({i \in Passing : tests[i].status # "ONLY"})
        /\ Passing = 1..3 =>
              /\ Cardinality(ExecutedResults) = 1
              /\ Cardinality(SkippedResults) = 2

C3_Witness ==
    /\ Finished
    /\ ThreeTestsOneOnly
    /\ Passing = 1..3
    /\ Cardinality(ExecutedResults) = 1
    /\ Cardinality(SkippedResults) = 2

\* C4: an exception leaving a test action never ends the run: the test gets a
\* Failed result whose failure list holds the exception's message, and every
\* later filter-passing TestCase still gets its result.
C4_ExceptionsAreIsolated ==
    /\ pc # "aborted"
    /\ Running =>
          \A k \in ExecutedResults :
              LET t == tests[origin[k]]
              IN  Throws(t.func) =>
                    /\ ~results[k].passed
                    /\ ExceptionMessage(FirstThrow(t.func)) \in Range(results[k].failures)
                    /\ Finished =>
                          \A i \in (origin[k] + 1)..Len(tests) :
                              PassesFilter(tests[i]) =>
                                  \E k2 \in (k + 1)..Len(results) : origin[k2] = i

C4_Witness ==
    /\ Finished
    /\ \E k \in ExecutedResults :
          /\ Throws(tests[origin[k]].func)
          /\ FirstThrow(tests[origin[k]].func).kind = "throw_other"
          /\ \E k2 \in ExecutedResults : k2 > k /\ results[k2].passed

\* C5: the failure state is reset before each test action, so every executed
\* result shows only the failures of its own action: what the test yields when
\* it runs alone.
C5_FailureStateIsPerTest ==
    Running =>
        \A k \in ExecutedResults :
            /\ results[k].failures = Own(tests[origin[k]]).msgs
            /\ results[k].passed = ~Own(tests[origin[k]]).failed

C5_Witness ==
    /\ Finished
    /\ \E k, k2 \in ExecutedResults :
          /\ k < k2
          /\ ~results[k].passed
          /\ results[k2].passed
          /\ results[k2].failures = <<>>

\* C6: run_all_tests returns 1 exactly when some test of the run ended Failed,
\* and 0 otherwise (all skipped, nothing passing the filter, help mode).
C6_ExitCode ==
    pc = "done" =>
        /\ ret \in {0, 1}
        /\ ret = 1 <=> (ran /\ \E k \in ExecutedResults : ~results[k].passed)

C6_Witness ==
    /\ Finished
    /\ ret = 1
    /\ SkippedResults # {}

\* C7: assertions are not fatal: a body in which k assertions fail and nothing
\* is thrown yields exactly k messages, those of the failing assertions in
\* their order, and is Failed exactly when k > 0.
C7_AssertionsAreNonFatal ==
    Running =>
        \A k \in ExecutedResults :
            LET t == tests[origin[k]]
                F == SelectSeq(t.func, StmtFails)
            IN  ~Throws(t.func) =>
                  /\ Len(results[k].failures) = Len(F)
                  /\ results[k].passed <=> (Len(F) = 0)
                  /\ \A j \in 1..Len(F) :
                        HasPrefix(results[k].failures[j],
                                  t.file \o ":" \o ToString(F[j].line) \o ": ")

C7_Witness ==
    /\ Finished
    /\ \E k \in ExecutedResults :
          /\ ~Throws(tests[origin[k]].func)
          /\ Len(tests[origin[k]].func) = 3
          /\ Len(results[k].failures) = 2
          /\ ~results[k].passed

\* C8: a TestCase that is skipped in a run, by its own SKIP status or by the
\* ONLY override, is never invoked and has exactly one result, marked skipped.
C8_SkippedIsNeverInvoked ==
    Running =>
        \A i \in Passing :
            (tests[i].status = "SKIP" \/ (SomeOnly /\ tests[i].status # "ONLY")) =>
                /\ i \notin Range(invoked)
                /\ Cardinality({k \in 1..Len(results) : origin[k] = i}) = 1
                /\ \A k \in 1..Len(results) :
                      origin[k] = i => results[k].skipped /\ results[k].failures = <<>>

C8_Witness ==
    /\ Finished
    /\ ~SomeOnly
    /\ \E k \in SkippedResults : tests[origin[k]].status = "SKIP"
    /\ ExecutedResults # {}

\* C9: the i-th result carries the name, file and line of the i-th
\* filter-passing TestCase in registration order; TestCases with the same name
\* each have their own result, with the outcome each has on its own.
C9_OrderAndIdentity ==
    Running =>
        /\ \A k \in 1..Len(results) :
              /\ results[k].name = tests[origin[k]].name
              /\ results[k].file = tests[origin[k]].file
              /\ results[k].line = tests[origin[k]].line
              /\ origin[k] \in Passing
              /\ Cardinality({i \in Passing : i <= origin[k]}) = k
        /\ \A k \in ExecutedResults :
              results[k].passed = ~Own(tests[origin[k]]).failed

C9_Witness ==
    /\ Finished
    /\ \E k, k2 \in ExecutedResults :
          /\ k < k2
          /\ results[k].name = results[k2].name
          /\ <<results[k].file, results[k].line>> # <<results[k2].file, results[k2].line>>
          /\ results[k].passed # results[k2].passed

\* C10 as stated: after any invocation of run_all_tests, results holds only the
\* results that invocation produced.
C10_AsStated == pc = "done" => results = fresh

\* C10: after any invocation that got past the help check, results holds only
\* the results that invocation produced: the earlier ones were discarded.
C10_ResultsAreRunScoped == Running => results = fresh

C10_Witness ==
    /\ Finished
    /\ prior_results
    /\ results # <<>>
    /\ results = fresh

\* An expect statement recorded a failure: one message appended and the
\* flag set; or it left the failure state as it was.
Recorded(before, after) ==
    /\ after.failed
    /\ Len(after.msgs) = Len(before.msgs) + 1
    /\ SubSeq(after.msgs, 1, Len(before.msgs)) = before.msgs

HasSuffix(str, suffix) ==
    /\ Len(suffix) <= Len(str)
    /\ SubSeq(str, Len(str) - Len(suffix) + 1, Len(str)) = suffix

\* C11: for every matcher and every input, chaining Not() twice more leaves
\* the outcome of the expectation as it is, and chaining it once more records
\* a failure exactly when the expectation as written records none.
C11_DoubleNegation ==
    last.set =>
        /\ last.twice = last.after
        /\ Recorded(last.before, last.once) <=> (last.after = last.before)
        /\ Recorded(last.before, last.after) <=> (last.once = last.before)

C11_Witness ==
    /\ last.set
    /\ last.stmt.matcher = "to_have_been_called_times"
    /\ last.stmt.nots = 0
    /\ Len(mock.calls) = 1
    /\ last.stmt.rhs = 2
    /\ Recorded(last.before, last.after)
    /\ last.once = last.before
    /\ Recorded(last.before, last.twice)

\* C12: the call log of a Mock is the sequence of the argument tuples it was
\* invoked with, whether or not the behavior threw; un-negated,
\* to_have_been_called_times(k) passes exactly when k is the number of
\* invocations, and its failure message ends with that number.
C12_MockCallLog ==
    /\ mock.calls = invocations
    /\ (last.set /\ last.stmt.matcher = "to_have_been_called_times"
                 /\ last.stmt.nots = 0) =>
          LET n == Len(invocations)
              k == last.stmt.rhs
          IN  /\ (last.after = last.before) <=> (k = n)
              /\ k # n =>
                    /\ Recorded(last.before, last.after)
                    /\ HasSuffix(last.after.msgs[Len(last.after.msgs)],
                                 "Actual: " \o ToString(n))

C12_Witness ==
    /\ mock.behavior = "raises"
    /\ invocations = <<<<1>>, <<2>>>>
    /\ last.set
    /\ last.stmt.matcher = "to_have_been_called_times"
    /\ last.stmt.nots = 0
    /\ last.stmt.rhs = 1
    /\ Recorded(last.before, last.after)

\* Glob matching as the filter's documentation describes it: the whole name
\* against the pattern, * any run of characters, ? exactly one character,
\* every other character only itself.
RECURSIVE Glob(_, _)
Glob(pattern, name) ==
    IF Len(pattern) = 0 THEN Len(name) = 0
    ELSE IF Head(pattern) = "*"
    THEN \E n \in 0..Len(name) : Glob(Tail(pattern), SubSeq(name, n + 1, Len(name)))
    ELSE /\ Len(name) > 0
         /\ (Head(pattern) = "?" \/ Head(pattern) = Head(name))
         /\ Glob(Tail(pattern), Tail(name))

\* C13: matches_filter(name, pattern) is glob matching: an empty pattern
\* matches every name, and any other pattern matches exactly the names the
\* glob describes.  (The code searches the name for the pattern, ignoring
\* case, so this is violated.)
C13_AsStated ==
    query.set =>
        (query.bare <=> (Len(query.pattern) = 0 \/ Glob(query.pattern, query.name)))

\* The report of the run that has just ended, when a path was given.
ReportWritten == Finished /\ xml_output_path # ""

LeavesWithFailure(doc) ==
    {i \in 1..Len(doc.testcases) : Len(doc.testcases[i].failures) >= 1}
LeavesSkipped(doc) ==
    {i \in 1..Len(doc.testcases) : doc.testcases[i].skipped}

\* C14: in the report of a run, the failures attribute of <testsuites> (and
\* of <testsuite>) is the number of <testcase> leaves with at least one
\* <failure>, tests is the number of results, one leaf each, and skipped is
\* the number of leaves with a <skipped/> marker.
C14_ReportCounts ==
    ReportWritten =>
        /\ xml_file.testsuites.failures = Cardinality(LeavesWithFailure(xml_file))
        /\ xml_file.testsuites.tests = Len(results)
        /\ Len(xml_file.testcases) = Len(results)
        /\ xml_file.testsuites.skipped = Cardinality(LeavesSkipped(xml_file))
        /\ xml_file.testsuite.failures = xml_file.testsuites.failures
        /\ xml_file.testsuite.tests = xml_file.testsuites.tests
        /\ xml_file.testsuite.skipped = xml_file.testsuites.skipped

C14_Witness ==
    /\ ReportWritten
    /\ xml_file.testsuites.tests = 3
    /\ xml_file.testsuites.failures = 1
    /\ xml_file.testsuites.skipped = 1
    /\ \E i \in LeavesWithFailure(xml_file) : Len(xml_file.testcases[i].failures) = 2

\* The terminal states of a test in a run, read off its result.
IsPassed(r)  == ~r.skipped /\ r.passed /\ r.failures = <<>>
IsFailed(r)  == ~r.skipped /\ ~r.passed
IsSkipped(r) == r.skipped /\ r.passed /\ r.failures = <<>>
InState(r) ==
    (IF IsPassed(r) THEN {"Passed"} ELSE {})
    \cup (IF IsFailed(r) THEN {"Failed"} ELSE {})
    \cup (IF IsSkipped(r) THEN {"Skipped"} ELSE {})
FailedResults == SelectSeq(results, IsFailed)

\* C15: during and after a run every result is in exactly one of the states
\* Passed, Failed, Skipped; the counters passed, failed and skipped are the
\* numbers of results in those states, so they add up to the number of
\* results; failed_tests is the names of the Failed results in their order,
\* which is the registration order.
C15_CountersMatchResults ==
    Running =>
        /\ \A k \in 1..Len(results) : Cardinality(InState(results[k])) = 1
        /\ passed  = Cardinality({k \in 1..Len(results) : IsPassed(results[k])})
        /\ failed  = Cardinality({k \in 1..Len(results) : IsFailed(results[k])})
        /\ skipped = Cardinality({k \in 1..Len(results) : IsSkipped(results[k])})
        /\ passed + failed + skipped = Len(results)
        /\ Len(failed_tests) = Len(FailedResults)
        /\ \A k \in 1..Len(failed_tests) : failed_tests[k] = FailedResults[k].name
        /\ \A k \in 1..(Len(origin) - 1) : origin[k] < origin[k + 1]

C15_Witness ==
    /\ Finished
    /\ Len(tests) = 2 /\ tests[1].name = "A" /\ tests[2].name = "B"
    /\ passed = 1 /\ failed = 1 /\ skipped = 0
    /\ failed_tests = <<"B">>
    /\ ret = 1

\* C16: in a call of run_all_tests whose arguments hold --help / -h or
\* --mt_list_tests / --gtest_list_tests, no test action is invoked and the
\* call returns 0, whatever tests are registered and whatever other flag
\* came with it.
C16_HelpAndListRunNothing ==
    help_in_args =>
        /\ invoked = <<>>
        /\ ~ran
        /\ pc \in {"parse", "done"}
        /\ pc = "done" => ret = 0

C16_Witness ==
    /\ help_in_args
    /\ pc = "done"
    /\ ret = 0
    /\ ~prior_results
    /\ xml_output_path # ""
    /\ \E i \in 1..Len(tests) : tests[i].status = "NORMAL" /\ Own(tests[i]).failed

\* The inverted flag of the statement: Not() was chained an odd number of
\* times.
Inverted == last.stmt.nots % 2 = 1
Relational == last.set /\ last.stmt.matcher \in {"==", "!=", ">", "<"}
RawComparison ==
    CASE last.stmt.matcher = "==" -> last.number = last.stmt.rhs
      [] last.stmt.matcher = "!=" -> last.number # last.stmt.rhs
      [] last.stmt.matcher = ">"  -> last.number > last.stmt.rhs
      [] last.stmt.matcher = "<"  -> last.number < last.stmt.rhs
Effective(inverted, raw) == IF inverted THEN ~raw ELSE raw

\* C17: a relational matcher records a failure (one message appended,
\* current_test_failed set) exactly when inverted ? !raw : raw is false, raw
\* being the comparison of the actual with the supplied value; otherwise it
\* records nothing.
C17_RelationalRule ==
    Relational =>
        /\ ~Effective(Inverted, RawComparison) => Recorded(last.before, last.after)
        /\ Effective(Inverted, RawComparison) => last.after = last.before

C17_Witness ==
    /\ Relational
    /\ last.stmt.matcher = ">"
    /\ last.number = 2 /\ last.stmt.rhs = 1
    /\ last.stmt.nots = 1
    /\ ~last.before.failed
    /\ last.after.failed /\ Len(last.after.msgs) = 1

NonRelational ==
    last.set /\ last.stmt.matcher \in
                    {"to_contain", "is_empty", "to_have_been_called_times"}
\* found / empty / count == n
RawPredicate ==
    CASE last.stmt.matcher = "to_contain" ->
            \E i \in 1..Len(last.items) : last.items[i] = last.stmt.rhs
      [] last.stmt.matcher = "is_empty" -> last.items = <<>>
      [] last.stmt.matcher = "to_have_been_called_times" ->
            Len(invocations) = last.stmt.rhs

\* C18: to_contain, is_empty and to_have_been_called_times record a failure
\* exactly when the inverted flag equals the raw predicate, and record
\* nothing otherwise; that is the relational rule: a failure exactly when
\* inverted ? !raw : raw is false.
C18_InvertedEqualsRaw ==
    NonRelational =>
        /\ Recorded(last.before, last.after) <=> (Inverted = RawPredicate)
        /\ (last.after = last.before) <=> (Inverted # RawPredicate)
        /\ Recorded(last.before, last.after) <=> ~Effective(Inverted, RawPredicate)

C18_Witness ==
    /\ NonRelational
    /\ last.stmt.matcher = "to_contain"
    /\ last.items = <<1, 2>> /\ last.stmt.rhs = 1
    /\ last.stmt.nots = 1
    /\ Recorded(last.before, last.after)
    /\ HasSuffix(last.after.msgs[Len(last.after.msgs)],
                 "Expected container NOT to contain element")

\* C19: a test passes the overall filter exactly when the pattern is
\* satisfied by its bare name or by "ModernTest.<name>", the suite name
\* being the same constant for every test.
C19_BareOrQualifiedName ==
    query.set =>
        /\ query.overall <=> (query.bare \/ query.qualified)
        /\ query.bare = matches_filter(query.name, query.pattern)
        /\ query.qualified =
              matches_filter("ModernTest." \o query.name, query.pattern)

C19_Witness ==
    /\ query.set
    /\ query.name = "A"
    /\ query.pattern = ".a"
    /\ ~query.bare
    /\ query.qualified
    /\ query.overall

\* C20: in every result that is not skipped, passed is false exactly when
\* the failure list is not empty; the two globals it is copied from agree in
\* the same way at every moment.
C20_FailedIffHasFailures ==
    /\ \A k \in ExecutedResults :
          ~results[k].passed <=> results[k].failures # <<>>
    /\ current_test_failed <=> failure_messages # <<>>

C20_Witness ==
    /\ Finished
    /\ \E k \in ExecutedResults :
          results[k].passed /\ results[k].failures = <<>>
    /\ \E k \in ExecutedResults :
          /\ ~results[k].passed
          /\ Len(results[k].failures) = 1
          /\ results[k].failures[1] = "Unknown exception thrown"
    /\ \E k \in ExecutedResults :
          ~results[k].passed /\ Len(results[k].failures) = 2

\* C21: the number announced in the "Running N test(s)" header is the
\* number of test actions the run invokes, which is passed + failed: never
\* exceeded while the loop runs, and reached when the run has ended, for
\* every registry and filter pattern.
C21_AnnouncedEqualsInvoked ==
    /\ Running => /\ passed + failed = Len(invoked)
                  /\ Len(invoked) <= tests_to_run
    /\ Finished => /\ tests_to_run = passed + failed
                   /\ tests_to_run = Len(invoked)

C21_Witness ==
    /\ Finished
    /\ Len(tests) = 3
    /\ SomeOnly
    /\ \E i \in 1..Len(tests) : tests[i].status = "SKIP"
    /\ \E i \in 1..Len(tests) : tests[i].status = "NORMAL"
    /\ test_filter_pattern = "A"
    /\ tests_to_run = 1
    /\ Len(invoked) = 1
    /\ skipped = 2

\* The position of the first throw statement of a body that throws.
ThrowAt(body) ==
    CHOOSE j \in 1..Len(body) :
        /\ body[j].kind \in {"throw", "throw_other"}
        /\ \A h \in 1..(j - 1) : body[h].kind = "expect"

\* C22: the result of a test whose body throws holds the failures of the
\* assertions before the throw, in their order, and then the exception's
\* message as its last entry; the statements after the throw add nothing.
C22_ExceptionMessageIsLast ==
    Running =>
        \A k \in ExecutedResults :
            LET t == tests[origin[k]]
            IN  Throws(t.func) =>
                  LET j == ThrowAt(t.func)
                      F == SelectSeq(SubSeq(t.func, 1, j - 1), StmtFails)
                      f == results[k].failures
                  IN  /\ Len(f) = Len(F) + 1
                      /\ f[Len(f)] = ExceptionMessage(t.func[j])
                      /\ \A h \in 1..Len(F) :
                            HasPrefix(f[h], t.file \o ":" \o ToString(F[h].line) \o ": ")

C22_Witness ==
    /\ Finished
    /\ \E k \in ExecutedResults :
          LET t == tests[origin[k]]
          IN  /\ Throws(t.func)
              /\ ThrowAt(t.func) = 2
              /\ StmtFails(t.func[1])
              /\ StmtFails(t.func[3])
              /\ Len(results[k].failures) = 2
              /\ HasPrefix(results[k].failures[1], "t2.cpp:6: Expected NOT ")
              /\ results[k].failures[2] = "Unhandled exception: boom"

====
